---- MODULE Spec2Model ----
(***************************************************************************)
(* A model of decon.py: main (argument parsing, the nmap preflight check), *)
(* the Enumerator class (output directory, the two nmap profiles,          *)
(* run_command's tee loop) and the environment it acts on: the wall clock, *)
(* the filesystem and the nmap child process.                              *)
(*                                                                         *)
(* A string that is taken apart by the program (the target, which pathlib  *)
(* parses) is a sequence of one-character strings; a filesystem path is    *)
(* the sequence of its components from the root.  Every other string is    *)
(* an opaque TLA+ string.                                                  *)
(***************************************************************************)
EXTENDS Integers, Sequences, FiniteSets, TLC

\* ---------------------------------------------------------------- bounds
MaxTargetLen == 2
MaxLines == 2
MaxClock == 2
TicksPerSecond == 2

Runs == {1, 2}
Chars == {"/", ".", "a"}
Targets == UNION {[1..n -> Chars] : n \in 0..MaxTargetLen}
TwoRunTargets == {<<"a">>, <<"a", "a">>}
Choices == {"ctf", "real"}
ModeArgs == Choices \cup {"bad"}
ExitCodes == {0, 1, 137}
Home == << <<"h">> >>
InitDirs == {<<>>, Home}

VARIABLES proc, now, dirs, files

vars == <<proc, now, dirs, files>>

\* ------------------------------------------------------- pure functions

\* datetime.now().strftime("%Y%m%d_%H%M%S"): the clock cut to whole seconds.
strftime(t) == t \div TicksPerSecond

RECURSIVE SplitAcc(_, _, _)
SplitAcc(s, cur, acc) ==
    IF s = <<>>
    THEN IF cur = <<>> THEN acc ELSE Append(acc, cur)
    ELSE IF Head(s) = "/"
         THEN SplitAcc(Tail(s), <<>>, IF cur = <<>> THEN acc ELSE Append(acc, cur))
         ELSE SplitAcc(Tail(s), Append(cur, Head(s)), acc)

\* pathlib's parse of a string: split on "/", empty and "." components dropped,
\* ".." kept.
PathParts(s) == SelectSeq(SplitAcc(s, <<>>, <<>>), LAMBDA p : p # <<".">>)

IsAbsolute(s) == s # <<>> /\ Head(s) = "/"

\* Path.home() / target: an absolute right operand replaces the left one.
PathJoin(base, s) == IF IsAbsolute(s) THEN PathParts(s) ELSE base \o PathParts(s)

RECURSIVE ResolveAcc(_, _)
ResolveAcc(p, acc) ==
    IF p = <<>> THEN acc
    ELSE IF Head(p) = <<".", ".">>
         THEN ResolveAcc(Tail(p), IF acc = <<>> THEN acc ELSE SubSeq(acc, 1, Len(acc) - 1))
         ELSE ResolveAcc(Tail(p), Append(acc, Head(p)))

\* The directory the operating system reaches for a path: ".." steps up.
Resolve(p) == ResolveAcc(p, <<>>)

Prefixes(p) == {SubSeq(p, 1, n) : n \in 0..Len(p)}

\* mkdir(parents=True, exist_ok=True)
MkdirParents(ds, p) == ds \cup Prefixes(Resolve(p))

\* mutant: the CTF profile without -Pn
nmap_ctf_cmd_noPn(target) == <<"nmap", "-sC", "-sV", "-T4", target>>

nmap_ctf_cmd(target) == <<"nmap", "-sC", "-sV", "-Pn", "-T4", target>>

nmap_realworld_cmd(target) == <<"nmap", "-sV", "-Pn", "--open", "-p-", target>>

\* f"{timestamp}_{output_file}" under output_dir
OutputPath(output_dir, timestamp, output_file) ==
    [dir |-> Resolve(output_dir), name |-> <<timestamp, output_file>>]

Hole == <<"hole", 0>>

Max(a, b) == IF a > b THEN a ELSE b

\* A write of data through a handle whose position is off.
WriteAt(content, off, data) ==
    [i \in 1..Max(Len(content), off + Len(data)) |->
        IF i > off /\ i <= off + Len(data) THEN data[i - off]
        ELSE IF i <= Len(content) THEN content[i] ELSE Hole]

Header(cmd, timestamp, target) ==
    << <<"# Command:", cmd>>, <<"# Timestamp:", timestamp>>,
       <<"# Target:", target>>, <<"#====", 70>>, <<"blank", 0>> >>

\* mutant: the return value follows the exit code
ReturnAfterWait_exitcode(returncode) == returncode = 0

\* The value run_command returns once the child was waited for.
ReturnAfterWait(returncode) == TRUE

\* ---------------------------------------------------------------- state

NoPath == [dir |-> <<>>, name |-> <<-1, "">>]

NewProc(t, m, pc0) ==
    [pc |-> pc0, target |-> t, mode |-> m, exitStatus |-> -1, preflight |-> "none",
     constructed |-> FALSE, output_dir |-> <<>>, mkdirs |-> 0,
     calls |-> 0, cmd |-> <<>>, output_file |-> "", timestamp |-> -1,
     output_path |-> NoPath, opens |-> 0, isOpen |-> FALSE, off |-> 0,
     spawned |-> 0, spawnedCmd |-> <<>>, line |-> 0, waited |-> FALSE,
     returncode |-> 0, result |-> "none", raised |-> "none", console |-> <<>>,
     child |-> "none", pipe |-> <<>>, sent |-> <<>>, childCode |-> 0]

Init ==
    /\ \E t \in Targets, m \in ModeArgs :
         proc = [r \in Runs |-> IF r = 1 THEN NewProc(t, m, "parse")
                                ELSE NewProc(<<>>, "ctf", "off")]
    /\ now = 0
    /\ dirs = InitDirs
    /\ files = <<>>

TwoInit ==
    /\ \E t1 \in TwoRunTargets, t2 \in TwoRunTargets, m1 \in Choices, m2 \in Choices :
         proc = [r \in Runs |-> IF r = 1 THEN NewProc(t1, m1, "parse")
                                ELSE NewProc(t2, m2, "parse")]
    /\ now = 0
    /\ dirs = InitDirs
    /\ files = <<>>

Say(r, msg) == Append(proc[r].console, msg)

Set(r, rec) == proc' = [proc EXCEPT ![r] = rec]

\* -------------------------------------------------------------- actions

Tick ==
    /\ now < MaxClock
    /\ now' = now + 1
    /\ UNCHANGED <<proc, dirs, files>>

\* parser.parse_args(): a mode outside the choices is a usage error, exit 2.
main_parse_args(r) ==
    /\ proc[r].pc = "parse"
    /\ IF proc[r].mode \in Choices
       THEN Set(r, [proc[r] EXCEPT !.pc = "preflight"])
       ELSE Set(r, [proc[r] EXCEPT !.pc = "exited", !.exitStatus = 2,
                                   !.console = Say(r, <<"usage", 0>>)])
    /\ UNCHANGED <<now, dirs, files>>

\* mutant: the diagnostic is printed but sys.exit(1) is missing
main_preflight_noexit(r) ==
    /\ proc[r].pc = "preflight"
    /\ \E outcome \in {"ok", "FileNotFoundError", "CalledProcessError"} :
         IF outcome = "ok"
         THEN Set(r, [proc[r] EXCEPT !.pc = "construct", !.preflight = "ok"])
         ELSE Set(r, [proc[r] EXCEPT !.pc = "construct", !.preflight = "failed",
                                     !.console = Say(r, <<"[x] nmap not installed", 0>>)])
    /\ UNCHANGED <<now, dirs, files>>

\* subprocess.run(['nmap', '--version'], check=True) in try/except, sys.exit(1).
main_preflight(r) ==
    /\ proc[r].pc = "preflight"
    /\ \E outcome \in {"ok", "FileNotFoundError", "CalledProcessError"} :
         IF outcome = "ok"
         THEN Set(r, [proc[r] EXCEPT !.pc = "construct", !.preflight = "ok"])
         ELSE Set(r, [proc[r] EXCEPT !.pc = "exited", !.preflight = "failed",
                                     !.exitStatus = 1,
                                     !.console = Say(r, <<"[x] nmap not installed", 0>>)])
    /\ UNCHANGED <<now, dirs, files>>

\* Enumerator.__init__ up to the call of setup_output_dir.
Enumerator_init(r) ==
    /\ proc[r].pc = "construct"
    /\ Set(r, [proc[r] EXCEPT !.pc = "mkdir", !.constructed = TRUE,
                              !.output_dir = PathJoin(Home, proc[r].target)])
    /\ UNCHANGED <<now, dirs, files>>

\* setup_output_dir: mkdir may raise (not caught anywhere: the process dies).
setup_output_dir(r) ==
    /\ proc[r].pc = "mkdir"
    /\ \/ /\ dirs' = MkdirParents(dirs, proc[r].output_dir)
          /\ Set(r, [proc[r] EXCEPT !.pc = "banner", !.mkdirs = @ + 1,
                                    !.console = Say(r, <<"[*] Output directory:",
                                                         proc[r].output_dir>>)])
       \/ /\ Resolve(proc[r].output_dir) \notin dirs
          /\ dirs' = dirs
          /\ Set(r, [proc[r] EXCEPT !.pc = "exited", !.exitStatus = 1,
                                    !.console = Say(r, <<"Traceback", 0>>)])
    /\ UNCHANGED <<now, files>>

run_enumeration_banner(r) ==
    /\ proc[r].pc = "banner"
    /\ Set(r, [proc[r] EXCEPT !.pc = "dispatch",
                              !.console = Say(r, <<"Smart Enumerator", proc[r].mode>>)])
    /\ UNCHANGED <<now, dirs, files>>

\* mutant: both profiles log to nmap_full.txt
run_enumeration_dispatch_samefile(r) ==
    /\ proc[r].pc = "dispatch"
    /\ IF proc[r].mode = "ctf"
       THEN Set(r, [proc[r] EXCEPT !.pc = "rc_begin", !.calls = @ + 1,
                                   !.cmd = nmap_ctf_cmd(proc[r].target),
                                   !.output_file = "nmap_full.txt"])
       ELSE IF proc[r].mode = "real"
       THEN Set(r, [proc[r] EXCEPT !.pc = "rc_begin", !.calls = @ + 1,
                                   !.cmd = nmap_realworld_cmd(proc[r].target),
                                   !.output_file = "nmap_full.txt"])
       ELSE Set(r, [proc[r] EXCEPT !.pc = "complete"])
    /\ UNCHANGED <<now, dirs, files>>

\* if self.mode == 'ctf': nmap_ctf() elif self.mode == 'real': nmap_realworld()
run_enumeration_dispatch(r) ==
    /\ proc[r].pc = "dispatch"
    /\ IF proc[r].mode = "ctf"
       THEN Set(r, [proc[r] EXCEPT !.pc = "rc_begin", !.calls = @ + 1,
                                   !.cmd = nmap_ctf_cmd(proc[r].target),
                                   !.output_file = "nmap_ctf.txt"])
       ELSE IF proc[r].mode = "real"
       THEN Set(r, [proc[r] EXCEPT !.pc = "rc_begin", !.calls = @ + 1,
                                   !.cmd = nmap_realworld_cmd(proc[r].target),
                                   !.output_file = "nmap_full.txt"])
       ELSE Set(r, [proc[r] EXCEPT !.pc = "complete"])
    /\ UNCHANGED <<now, dirs, files>>

\* run_command, lines 23-27: the timestamp, the path, the two announcements.
run_command_begin(r) ==
    /\ proc[r].pc = "rc_begin"
    /\ LET ts == strftime(now)
           path == OutputPath(proc[r].output_dir, ts, proc[r].output_file)
       IN Set(r, [proc[r] EXCEPT !.pc = "open", !.timestamp = ts, !.output_path = path,
                                 !.console = Say(r, <<"[+] Running:", proc[r].cmd>>)
                                             \o << <<"[*] Saving to:", path>> >>])
    /\ UNCHANGED <<now, dirs, files>>

\* open(output_path, 'w'): creates or truncates; an OSError goes to the except.
run_command_open(r) ==
    /\ proc[r].pc = "open"
    /\ \/ /\ files' = (proc[r].output_path :> <<>>) @@ files
          /\ Set(r, [proc[r] EXCEPT !.pc = "header", !.opens = @ + 1,
                                    !.isOpen = TRUE, !.off = 0])
       \/ /\ files' = files
          /\ Set(r, [proc[r] EXCEPT !.pc = "except", !.raised = "open"])
    /\ UNCHANGED <<now, dirs>>

\* the four header writes (the separator carries the blank line)
run_command_header(r) ==
    /\ proc[r].pc = "header"
    /\ LET h == Header(proc[r].cmd, proc[r].timestamp, proc[r].target)
       IN /\ files' = [files EXCEPT ![proc[r].output_path] = WriteAt(@, proc[r].off, h)]
          /\ Set(r, [proc[r] EXCEPT !.pc = "spawn", !.off = @ + Len(h)])
    /\ UNCHANGED <<now, dirs>>

\* subprocess.Popen(cmd, ...): may raise (FileNotFoundError, OSError).
run_command_popen(r) ==
    /\ proc[r].pc = "spawn"
    /\ \/ Set(r, [proc[r] EXCEPT !.pc = "read", !.spawned = @ + 1,
                                 !.spawnedCmd = proc[r].cmd, !.child = "running"])
       \/ Set(r, [proc[r] EXCEPT !.pc = "except", !.isOpen = FALSE, !.raised = "popen"])
    /\ UNCHANGED <<now, dirs, files>>

\* for line in process.stdout: the next line, or the end of the stream
run_command_readline(r) ==
    /\ proc[r].pc = "read"
    /\ IF proc[r].pipe # <<>>
       THEN Set(r, [proc[r] EXCEPT !.pc = "print", !.line = Head(proc[r].pipe),
                                   !.pipe = Tail(proc[r].pipe)])
       ELSE /\ proc[r].child \in {"closed", "exited"}
            /\ Set(r, [proc[r] EXCEPT !.pc = "wait"])
    /\ UNCHANGED <<now, dirs, files>>

\* print(line, end='')
run_command_print(r) ==
    /\ proc[r].pc = "print"
    /\ Set(r, [proc[r] EXCEPT !.pc = "write",
                              !.console = Say(r, <<"line", proc[r].line>>)])
    /\ UNCHANGED <<now, dirs, files>>

\* mutant: the line is printed but never written to the file
run_command_write_skip(r) ==
    /\ proc[r].pc = "write"
    /\ Set(r, [proc[r] EXCEPT !.pc = "read"])
    /\ UNCHANGED <<now, dirs, files>>

\* f.write(line): an OSError goes to the except.
run_command_write(r) ==
    /\ proc[r].pc = "write"
    /\ \/ /\ files' = [files EXCEPT ![proc[r].output_path] =
                           WriteAt(@, proc[r].off, << <<"line", proc[r].line>> >>)]
          /\ Set(r, [proc[r] EXCEPT !.pc = "read", !.off = @ + 1])
       \/ /\ files' = files
          /\ Set(r, [proc[r] EXCEPT !.pc = "except", !.isOpen = FALSE, !.raised = "write"])
    /\ UNCHANGED <<now, dirs>>

\* mutant: a non-zero exit code is raised as an error (as check=True would)
run_command_wait_check(r) ==
    /\ proc[r].pc = "wait"
    /\ proc[r].child = "exited"
    /\ LET rc == proc[r].childCode
       IN IF rc = 0
          THEN Set(r, [proc[r] EXCEPT
                         !.pc = "complete", !.waited = TRUE, !.returncode = rc,
                         !.isOpen = FALSE, !.result = "True",
                         !.console = Say(r, <<"[ok] Completed successfully", 0>>)])
          ELSE Set(r, [proc[r] EXCEPT
                         !.pc = "except", !.waited = TRUE, !.returncode = rc,
                         !.isOpen = FALSE, !.raised = "wait"])
    /\ UNCHANGED <<now, dirs, files>>

\* process.wait(), the end of the with block, and the report of the exit code.
run_command_wait(r) ==
    /\ proc[r].pc = "wait"
    /\ proc[r].child = "exited"
    /\ LET rc == proc[r].childCode
       IN Set(r, [proc[r] EXCEPT
                    !.pc = "complete", !.waited = TRUE, !.returncode = rc,
                    !.isOpen = FALSE,
                    !.result = IF ReturnAfterWait(rc) THEN "True" ELSE "False",
                    !.console = Say(r, IF rc = 0 THEN <<"[ok] Completed successfully", 0>>
                                       ELSE <<"[!] Command exited with code", rc>>)])
    /\ UNCHANGED <<now, dirs, files>>

\* mutant: the exception is not caught and ends the process
run_command_except_reraise(r) ==
    /\ proc[r].pc = "except"
    /\ Set(r, [proc[r] EXCEPT !.pc = "exited", !.exitStatus = 1,
                              !.console = Say(r, <<"Traceback", 0>>)])
    /\ UNCHANGED <<now, dirs, files>>

\* mutant: a failed command is tried again
run_command_except_retry(r) ==
    /\ proc[r].pc = "except"
    /\ Set(r, [proc[r] EXCEPT !.pc = "spawn", !.raised = "none",
                              !.console = Say(r, <<"[x] Error running command", 0>>)])
    /\ UNCHANGED <<now, dirs, files>>

\* except Exception as e: print, return False
run_command_except(r) ==
    /\ proc[r].pc = "except"
    /\ Set(r, [proc[r] EXCEPT !.pc = "complete", !.result = "False",
                              !.console = Say(r, <<"[x] Error running command", 0>>)])
    /\ UNCHANGED <<now, dirs, files>>

\* the completion banner of run_enumeration; main returns, exit status 0.
run_enumeration_complete(r) ==
    /\ proc[r].pc = "complete"
    /\ Set(r, [proc[r] EXCEPT !.pc = "exited", !.exitStatus = 0,
                              !.console = Say(r, <<"[ok] Enumeration complete",
                                                   proc[r].output_dir>>)])
    /\ UNCHANGED <<now, dirs, files>>

\* ------------------------------------------ the child process (nmap)

ChildEmit(r) ==
    /\ proc[r].child = "running"
    /\ Len(proc[r].sent) < MaxLines
    /\ LET l == Len(proc[r].sent) + 1
       IN Set(r, [proc[r] EXCEPT !.pipe = Append(@, l), !.sent = Append(@, l)])
    /\ UNCHANGED <<now, dirs, files>>

ChildClose(r) ==
    /\ proc[r].child = "running"
    /\ Set(r, [proc[r] EXCEPT !.child = "closed"])
    /\ UNCHANGED <<now, dirs, files>>

ChildExit(r) ==
    /\ proc[r].child = "closed"
    /\ \E code \in ExitCodes :
         Set(r, [proc[r] EXCEPT !.child = "exited", !.childCode = code])
    /\ UNCHANGED <<now, dirs, files>>

\* ---------------------------------------------------- specifications

ProcStep(r) ==
    \/ main_parse_args(r)
    \/ main_preflight(r)
    \/ Enumerator_init(r)
    \/ setup_output_dir(r)
    \/ run_enumeration_banner(r)
    \/ run_enumeration_dispatch(r)
    \/ run_command_begin(r)
    \/ run_command_open(r)
    \/ run_command_header(r)
    \/ run_command_popen(r)
    \/ run_command_readline(r)
    \/ run_command_print(r)
    \/ run_command_write(r)
    \/ run_command_wait(r)
    \/ run_command_except(r)
    \/ run_enumeration_complete(r)

ChildStep(r) == ChildEmit(r) \/ ChildClose(r) \/ ChildExit(r)

Next == Tick \/ \E r \in Runs : ProcStep(r) \/ ChildStep(r)

Spec == Init /\ [][Next]_vars

TwoSpec == TwoInit /\ [][Next]_vars

FairSpec ==
    /\ Init
    /\ [][Next]_vars
    /\ \A r \in Runs : WF_vars(ProcStep(r)) /\ WF_vars(ChildStep(r))

\* ------------------------------------------------------------ properties

Has(r, tag) == \E i \in 1..Len(proc[r].console) : proc[r].console[i][1] = tag

Last(q) == q[Len(q)]

\* the child lines on the terminal, in order
TermLines(r) ==
    LET c == SelectSeq(proc[r].console, LAMBDA e : e[1] = "line")
    IN [i \in 1..Len(c) |-> c[i][2]]

HeaderLen == Len(Header(<<>>, 0, <<>>))

\* the child lines in the log file, after the header
FileLines(r) ==
    LET f == files[proc[r].output_path]
    IN [i \in 1..(Len(f) - HeaderLen) |-> f[i + HeaderLen][2]]

IsPrefix(p, q) == Len(p) <= Len(q) /\ SubSeq(q, 1, Len(p)) = p

\* C1: when the preflight nmap --version fails, main exits with a non-zero
\* status and nothing was done: no Enumerator, no mkdir, no directory, no
\* log file, no child process.
C1_PreflightFailureNoSideEffects ==
    \A r \in Runs :
        proc[r].preflight = "failed" =>
            /\ proc[r].pc = "exited"
            /\ proc[r].exitStatus > 0
            /\ ~proc[r].constructed
            /\ proc[r].mkdirs = 0 /\ proc[r].calls = 0
            /\ proc[r].opens = 0 /\ proc[r].spawned = 0
            /\ proc[r].child = "none"
            /\ dirs = InitDirs
            /\ DOMAIN files = {}

C1_Witness == \E r \in Runs : proc[r].preflight = "failed" /\ proc[r].pc = "exited"

\* C2: the command built is one of the two fixed profiles, chosen by the
\* mode alone, with the target verbatim as its last token; the child is
\* spawned with exactly that command.
C2_CommandProfiles ==
    \A r \in Runs :
        proc[r].calls > 0 =>
            /\ proc[r].mode = "ctf" =>
                 proc[r].cmd = <<"nmap", "-sC", "-sV", "-Pn", "-T4", proc[r].target>>
            /\ proc[r].mode = "real" =>
                 proc[r].cmd = <<"nmap", "-sV", "-Pn", "--open", "-p-", proc[r].target>>
            /\ proc[r].mode \in {"ctf", "real"}
            /\ Last(proc[r].cmd) = proc[r].target
            /\ proc[r].spawned > 0 => proc[r].spawnedCmd = proc[r].cmd

C2_Witness ==
    \E r \in Runs : /\ proc[r].spawned > 0 /\ proc[r].mode = "ctf"
                    /\ proc[r].target = <<".", ".">>

C4_OutputPathsUnique ==
    \A r1 \in Runs, r2 \in Runs :
        (r1 # r2 /\ proc[r1].opens > 0 /\ proc[r2].opens > 0) =>
            proc[r1].output_path # proc[r2].output_path

\* C5: a scan executable that cannot be spawned is caught inside
\* run_command: the diagnostic is printed, False is returned, nothing
\* propagates, and the program ends with the completion banner, status 0.
C5_LaunchFailureCaught ==
    \A r \in Runs :
        proc[r].raised = "popen" =>
            /\ proc[r].pc \in {"except", "complete", "exited"}
            /\ proc[r].spawned = 0
            /\ ~Has(r, "Traceback")
            /\ proc[r].pc # "except" =>
                 /\ proc[r].result = "False"
                 /\ Has(r, "[x] Error running command")
            /\ proc[r].pc = "exited" =>
                 /\ proc[r].exitStatus = 0
                 /\ Last(proc[r].console) =
                      <<"[ok] Enumeration complete", proc[r].output_dir>>

C5_Witness == \E r \in Runs : proc[r].raised = "popen" /\ proc[r].pc = "exited"

\* C6: a child that exits with a non-zero code is a warning only: the
\* warning line carries the code, no error path is taken, the log file holds
\* every line that was read, and the completion banner names output_dir.
C6_NonZeroExitIsWarning ==
    \A r \in Runs :
        (proc[r].waited /\ proc[r].returncode # 0) =>
            /\ \E i \in 1..Len(proc[r].console) :
                 proc[r].console[i] =
                     <<"[!] Command exited with code", proc[r].returncode>>
            /\ proc[r].raised = "none"
            /\ ~Has(r, "[x] Error running command")
            /\ ~Has(r, "Traceback")
            /\ proc[r].result # "False"
            /\ files[proc[r].output_path] =
                 Header(proc[r].cmd, proc[r].timestamp, proc[r].target)
                 \o [i \in 1..Len(proc[r].sent) |-> <<"line", proc[r].sent[i]>>]
            /\ proc[r].pc \in {"complete", "exited"}
            /\ proc[r].pc = "exited" =>
                 /\ proc[r].exitStatus = 0
                 /\ Last(proc[r].console) =
                      <<"[ok] Enumeration complete", proc[r].output_dir>>

C6_Witness ==
    \E r \in Runs : /\ proc[r].waited /\ proc[r].returncode = 137
                    /\ proc[r].pc = "exited" /\ Len(proc[r].sent) = MaxLines

\* C7: whatever the target, the directory created and written to is a
\* subdirectory of the home directory.
C7_OutputDirUnderHome ==
    \A r \in Runs :
        proc[r].mkdirs > 0 =>
            /\ IsPrefix(Home, Resolve(proc[r].output_dir))
            /\ Resolve(proc[r].output_dir) # Home
            /\ proc[r].opens > 0 =>
                 /\ IsPrefix(Home, proc[r].output_path.dir)
                 /\ proc[r].output_path.dir # Home

\* C8: in the tee loop each line goes to the terminal and then to the file
\* before the next one is read: the file's child lines are a prefix of the
\* terminal's, at most one behind; nothing is lost, duplicated or reordered;
\* at the end of the stream both equal what the child sent.
C8_TeeOrder ==
    \A r \in Runs :
        proc[r].spawned > 0 =>
            /\ IsPrefix(FileLines(r), TermLines(r))
            /\ Len(TermLines(r)) <= Len(FileLines(r)) + 1
            /\ proc[r].pc \in {"read", "print", "wait"} => TermLines(r) = FileLines(r)
            /\ proc[r].pc = "write" =>
                 TermLines(r) = Append(FileLines(r), proc[r].line)
            /\ TermLines(r)
                 \o (IF proc[r].pc = "print" THEN <<proc[r].line>> ELSE <<>>)
                 \o proc[r].pipe = proc[r].sent
            /\ (proc[r].pc = "wait" \/ proc[r].waited) =>
                 /\ TermLines(r) = proc[r].sent
                 /\ FileLines(r) = proc[r].sent

C8_Witness ==
    \E r \in Runs : /\ proc[r].waited /\ Len(proc[r].sent) = MaxLines
                    /\ FileLines(r) = proc[r].sent

Rank(pc) ==
    CASE pc = "off" -> 0
      [] pc = "parse" -> 1
      [] pc = "preflight" -> 2
      [] pc = "construct" -> 3
      [] pc = "mkdir" -> 4
      [] pc = "banner" -> 5
      [] pc = "dispatch" -> 6
      [] pc = "rc_begin" -> 7
      [] pc = "open" -> 8
      [] pc = "header" -> 9
      [] pc = "spawn" -> 10
      [] pc \in {"read", "print", "write"} -> 11
      [] pc \in {"wait", "except"} -> 12
      [] pc = "complete" -> 13
      [] pc = "exited" -> 14

\* C9: if the child eventually closes its output and exits, a run that
\* passed the preflight check always terminates, and one whose directory is
\* ready ends with the completion banner, whatever the outcome of the scan;
\* it never steps back to an earlier stage and never retries.
C9_LinearAndTerminates ==
    /\ \A r \in Runs : (proc[r].preflight = "ok") ~> (proc[r].pc = "exited")
    /\ \A r \in Runs :
         (proc[r].pc = "banner") ~>
             (proc[r].pc = "exited" /\ Has(r, "[ok] Enumeration complete"))
    /\ [][\A r \in Runs :
            /\ Rank(proc'[r].pc) >= Rank(proc[r].pc)
            /\ proc'[r].calls <= 1 /\ proc'[r].opens <= 1 /\ proc'[r].spawned <= 1]_vars

C9_Witness ==
    \E r \in Runs : /\ proc[r].pc = "exited" /\ Has(r, "[ok] Enumeration complete")
                    /\ proc[r].raised = "popen"

\* C10: a run that passed the preflight check makes exactly one call of
\* run_command, the one of its mode: ctf runs the CTF profile and logs to
\* <timestamp>_nmap_ctf.txt, real the REAL profile and <timestamp>_nmap_full.txt.
C10_ExactlyOneScan ==
    \A r \in Runs :
        /\ proc[r].calls <= 1 /\ proc[r].opens <= 1 /\ proc[r].spawned <= 1
        /\ Rank(proc[r].pc) \in 7..13 => proc[r].calls = 1
        /\ Has(r, "[ok] Enumeration complete") => proc[r].calls = 1
        /\ proc[r].calls = 1 =>
             /\ proc[r].mode = "ctf" =>
                  /\ proc[r].cmd[2] = "-sC"
                  /\ proc[r].output_file = "nmap_ctf.txt"
             /\ proc[r].mode = "real" =>
                  /\ proc[r].cmd[5] = "-p-"
                  /\ proc[r].output_file = "nmap_full.txt"
        /\ proc[r].opens = 1 =>
             /\ proc[r].output_path.name =
                  <<proc[r].timestamp,
                    IF proc[r].mode = "ctf" THEN "nmap_ctf.txt" ELSE "nmap_full.txt">>
             /\ DOMAIN files = {proc[r].output_path}

C10_Witness ==
    \E r \in Runs : /\ proc[r].pc = "exited" /\ proc[r].mode = "real"
                    /\ proc[r].waited /\ proc[r].opens = 1

====
